---------------------------- MODULE Spec2Model ----------------------------
(***************************************************************************)
(* Binary search tree with sentinel leaves (datastructures/trees/bintree.py *)
(* and the older bintree.py) and the traversal generators of               *)
(* algorithms/traversals.py.                                               *)
(*                                                                         *)
(* Node objects live in a heap: a function from object identities          *)
(* (positive integers) to records [key, left, right].  A link is an        *)
(* identity or None.  Objects that no tree can reach any more are dropped  *)
(* from the heap (reference counting), and a new object takes the smallest *)
(* identity that is not in use.                                            *)
(***************************************************************************)
EXTENDS Integers, Sequences, FiniteSets, TLC

VARIABLES heap, root, last, lst, gen

vars == <<heap, root, last, lst, gen>>

(***************************************************************************)
(* Bounds                                                                  *)
(***************************************************************************)
MaxKey == 5
MaxTreeKey == 2
MaxLen == 3
MaxVal == 3
MaxGenKey == 3
MaxYield == 4
MaxChanges == 2

Keys == 1..MaxKey
TreeKeys == 1..MaxTreeKey
Vals == 0..MaxVal

(***************************************************************************)
(* Values                                                                  *)
(***************************************************************************)
\* The singleton "no key here" marker; keys are compared with it by identity.
SENTINEL == 0

\* Python's None, the default of Node.left and Node.right.
None == 0

\* root[t] of a tree variable t that has not been constructed yet.
NoTree == -1

\* The tree variables of the program and the class each is an instance of.
BSTrees == {"t1", "t2"}
bstTrees == {"b1", "b2"}
Trees == BSTrees \cup bstTrees

Class(t) == IF t \in bstTrees THEN "bst" ELSE "BinarySearchTree"

\* Node(key): the dataclass constructor with left and right defaulted.
Node(key) == [key |-> key, left |-> None, right |-> None]

\* The identity a newly created object gets.
Fresh(h) == CHOOSE i \in 1..(Cardinality(DOMAIN h) + 1) :
                /\ i \notin DOMAIN h
                /\ \A j \in 1..(i - 1) : j \in DOMAIN h

\* The heap after creating object rec.
New(h, rec) == h @@ (Fresh(h) :> rec)

(***************************************************************************)
(* Node                                                                    *)
(***************************************************************************)
\* Node._issentinel of datastructures/trees/bintree.py.
IsSentinel(h, n) == h[n].key = SENTINEL

\* Faulty variant of Truthy: tests the link only, not the key.
Truthy_NotNone(h, n) == n # None

\* bool(node) for a link value: None is false, a Node is true iff it is
\* not a sentinel (Node.__bool__).
Truthy(h, n) == n # None /\ ~IsSentinel(h, n)

\* bool(node) by class of the tree.  Node._issentinel of bintree.py reads
\* self._key, an attribute the slotted dataclass does not have, so bool() of
\* every Node of that module raises AttributeError.
NodeBool(c, h, n) ==
    IF c = "bst"
    THEN IF n = None THEN "False" ELSE "AttributeError"
    ELSE IF Truthy(h, n) THEN "True" ELSE "False"

\* Faulty variant of Substitute: the links are copied, the key is not.
Substitute_LinksOnly(h, self, other) ==
    [h EXCEPT ![self] = [key |-> h[self].key,
                         left |-> h[other].left,
                         right |-> h[other].right]]

\* Faulty variant of Substitute: the key is copied, the links are not.
Substitute_KeyOnly(h, self, other) ==
    [h EXCEPT ![self] = [key |-> h[other].key,
                         left |-> h[self].left,
                         right |-> h[self].right]]

\* Node.substitute: copy every slot of other into self, in place.
Substitute(h, self, other) ==
    [h EXCEPT ![self] = [key |-> h[other].key,
                         left |-> h[other].left,
                         right |-> h[other].right]]

\* Faulty variant of MaxNode: follows left links (minimum of the branch).
MaxNode_Leftmost(h, m) ==
    LET MN[x \in DOMAIN h] ==
            IF Truthy(h, h[x].left) THEN MN[h[x].left] ELSE x
    IN MN[m]

\* Faulty variant of MaxNode: the loop body never runs.
MaxNode_Stay(h, m) == m

\* Faulty variant of MaxNode: "if" in place of "while", one step at most.
MaxNode_OneStep(h, m) ==
    IF Truthy(h, h[m].right) THEN h[m].right ELSE m

\* The loop of eject's first case: from the left child, follow right links
\* while the right child is a non-sentinel node.
MaxNode(h, m) ==
    LET MN[x \in DOMAIN h] ==
            IF Truthy(h, h[x].right) THEN MN[h[x].right] ELSE x
    IN MN[m]

RECURSIVE Eject_OneAsLeaf(_, _)
\* Faulty variant of Eject: a node with one descendant is treated as a leaf.
Eject_OneAsLeaf(h, self) ==
    LET left == h[self].left
        right == h[self].right
    IN IF Truthy(h, left) /\ Truthy(h, right)
       THEN LET maxnode == MaxNode(h, left)
                h1 == [h EXCEPT ![self].key = h[maxnode].key]
            IN Eject_OneAsLeaf(h1, maxnode)
       ELSE LET f == Fresh(h)
            IN Substitute(New(h, Node(SENTINEL)), self, f)

RECURSIVE Eject_AlwaysLeft(_, _)
\* Faulty variant of Eject: with one descendant, always substitutes left.
Eject_AlwaysLeft(h, self) ==
    LET left == h[self].left
        right == h[self].right
    IN IF Truthy(h, left) /\ Truthy(h, right)
       THEN LET maxnode == MaxNode(h, left)
                h1 == [h EXCEPT ![self].key = h[maxnode].key]
            IN Eject_AlwaysLeft(h1, maxnode)
       ELSE IF Truthy(h, left) \/ Truthy(h, right)
       THEN Substitute(h, self, left)
       ELSE LET f == Fresh(h)
            IN Substitute(New(h, Node(SENTINEL)), self, f)

RECURSIVE Eject_KeyCleared(_, _)
\* Faulty variant of Eject: a leaf only has its key set to the marker.
Eject_KeyCleared(h, self) ==
    LET left == h[self].left
        right == h[self].right
    IN IF Truthy(h, left) /\ Truthy(h, right)
       THEN LET maxnode == MaxNode(h, left)
                h1 == [h EXCEPT ![self].key = h[maxnode].key]
            IN Eject_KeyCleared(h1, maxnode)
       ELSE IF Truthy(h, left)
       THEN Substitute(h, self, left)
       ELSE IF Truthy(h, right)
       THEN Substitute(h, self, right)
       ELSE [h EXCEPT ![self].key = SENTINEL]

RECURSIVE Eject(_, _)
\* Node.eject: the heap after self.eject().
Eject(h, self) ==
    LET left == h[self].left
        right == h[self].right
    IN IF Truthy(h, left) /\ Truthy(h, right)
       THEN LET maxnode == MaxNode(h, left)
                h1 == [h EXCEPT ![self].key = h[maxnode].key]
            IN Eject(h1, maxnode)
       ELSE IF Truthy(h, left)
       THEN Substitute(h, self, left)
       ELSE IF Truthy(h, right)
       THEN Substitute(h, self, right)
       ELSE LET f == Fresh(h)
            IN Substitute(New(h, Node(SENTINEL)), self, f)


(***************************************************************************)
(* Tree operations                                                         *)
(***************************************************************************)
RECURSIVE BinarySearch(_, _, _, _)
\* _binarysearch: the node the descent from node n ends at, and the error
\* it raised, if any.  The loop tests bool(node) before each comparison;
\* comparing a key with the sentinel marker is a TypeError.
BinarySearch(c, h, n, key) ==
    LET b == NodeBool(c, h, n)
    IN IF b = "AttributeError"
       THEN [node |-> n, err |-> "AttributeError"]
       ELSE IF b = "False"
       THEN [node |-> n, err |-> "none"]
       ELSE IF h[n].key = SENTINEL
       THEN [node |-> n, err |-> "TypeError"]
       ELSE IF key < h[n].key
       THEN BinarySearch(c, h, h[n].left, key)
       ELSE IF key > h[n].key
       THEN BinarySearch(c, h, h[n].right, key)
       ELSE [node |-> n, err |-> "none"]

\* Faulty variant of InsertCall: one sentinel object serves as both children.
InsertCall_SharedSentinel(c, h, r, key) ==
    LET s == BinarySearch(c, h, r, key)
    IN IF s.err # "none"
       THEN [heap |-> h, outcome |-> s.err]
       ELSE IF NodeBool(c, h, s.node) = "True"
       THEN [heap |-> h, outcome |-> "ok"]
       ELSE IF s.node = None
       THEN [heap |-> h, outcome |-> "AttributeError"]
       ELSE LET h1 == [h EXCEPT ![s.node].key = key]
                l == Fresh(h1)
                h2 == New(h1, Node(SENTINEL))
                h3 == [h2 EXCEPT ![s.node].left = l, ![s.node].right = l]
            IN [heap |-> h3, outcome |-> "ok"]

\* Faulty variant of InsertCall: only the left sentinel is attached.
InsertCall_OneSentinel(c, h, r, key) ==
    LET s == BinarySearch(c, h, r, key)
    IN IF s.err # "none"
       THEN [heap |-> h, outcome |-> s.err]
       ELSE IF NodeBool(c, h, s.node) = "True"
       THEN [heap |-> h, outcome |-> "ok"]
       ELSE IF s.node = None
       THEN [heap |-> h, outcome |-> "AttributeError"]
       ELSE LET h1 == [h EXCEPT ![s.node].key = key]
                l == Fresh(h1)
                h2 == New(h1, Node(SENTINEL))
                h3 == [h2 EXCEPT ![s.node].left = l]
            IN [heap |-> h3, outcome |-> "ok"]

\* Faulty variant of InsertCall: no test for a duplicate.
InsertCall_Overwrite(c, h, r, key) ==
    LET s == BinarySearch(c, h, r, key)
    IN IF s.err # "none"
       THEN [heap |-> h, outcome |-> s.err]
       ELSE IF s.node = None
       THEN [heap |-> h, outcome |-> "AttributeError"]
       ELSE LET h1 == [h EXCEPT ![s.node].key = key]
                l == Fresh(h1)
                h2 == New(h1, Node(SENTINEL))
                h3 == [h2 EXCEPT ![s.node].left = l]
                rr == Fresh(h3)
                h4 == New(h3, Node(SENTINEL))
                h5 == [h4 EXCEPT ![s.node].right = rr]
            IN [heap |-> h5, outcome |-> "ok"]

\* Faulty variant of InsertCall: no sentinel children are attached.
InsertCall_NoChildren(c, h, r, key) ==
    LET s == BinarySearch(c, h, r, key)
    IN IF s.err # "none"
       THEN [heap |-> h, outcome |-> s.err]
       ELSE IF NodeBool(c, h, s.node) = "True"
       THEN [heap |-> h, outcome |-> "ok"]
       ELSE IF s.node = None
       THEN [heap |-> h, outcome |-> "AttributeError"]
       ELSE [heap |-> [h EXCEPT ![s.node].key = key], outcome |-> "ok"]

\* insert(key) on the tree whose root is r: the heap afterwards and how the
\* call ended ("ok", or the exception).  Assigning to an attribute of None
\* raises AttributeError.
InsertCall(c, h, r, key) ==
    LET s == BinarySearch(c, h, r, key)
    IN IF s.err # "none"
       THEN [heap |-> h, outcome |-> s.err]
       ELSE IF NodeBool(c, h, s.node) = "True"
       THEN [heap |-> h, outcome |-> "ok"]
       ELSE IF s.node = None
       THEN [heap |-> h, outcome |-> "AttributeError"]
       ELSE LET h1 == [h EXCEPT ![s.node].key = key]
                l == Fresh(h1)
                h2 == New(h1, Node(SENTINEL))
                h3 == [h2 EXCEPT ![s.node].left = l]
                rr == Fresh(h3)
                h4 == New(h3, Node(SENTINEL))
                h5 == [h4 EXCEPT ![s.node].right = rr]
            IN [heap |-> h5, outcome |-> "ok"]

\* Faulty variant of RemoveCall: an absent key is ignored silently.
RemoveCall_Silent(c, h, r, key) ==
    LET s == BinarySearch(c, h, r, key)
    IN IF s.err # "none"
       THEN [heap |-> h, outcome |-> s.err]
       ELSE IF NodeBool(c, h, s.node) = "True"
       THEN [heap |-> Eject(h, s.node), outcome |-> "ok"]
       ELSE [heap |-> h, outcome |-> "ok"]

\* remove(key): the heap afterwards and how the call ended; "KeyNotFound"
\* is the ValueError raised for an absent key.
RemoveCall(c, h, r, key) ==
    LET s == BinarySearch(c, h, r, key)
    IN IF s.err # "none"
       THEN [heap |-> h, outcome |-> s.err]
       ELSE IF NodeBool(c, h, s.node) = "True"
       THEN [heap |-> Eject(h, s.node), outcome |-> "ok"]
       ELSE [heap |-> h, outcome |-> "KeyNotFound"]

\* search(key): "True", "False", or the exception.
SearchCall(c, h, r, key) ==
    LET s == BinarySearch(c, h, r, key)
    IN IF s.err # "none"
       THEN s.err
       ELSE IF NodeBool(c, h, s.node) = "True" THEN "True" ELSE "False"

(***************************************************************************)
(* Traversals: the sequence of keys a generator yields when it is run to   *)
(* exhaustion on an unchanging tree.                                       *)
(***************************************************************************)
RECURSIVE BreadthFirstLoop_RightFirst(_, _, _)
\* Faulty variant of BreadthFirstLoop: right is enqueued before left.
BreadthFirstLoop_RightFirst(h, queue, out) ==
    IF queue = <<>>
    THEN out
    ELSE LET node == Head(queue)
             rest == Tail(queue)
         IN IF Truthy(h, node)
            THEN BreadthFirstLoop_RightFirst(h,
                     Append(Append(rest, h[node].right), h[node].left),
                     Append(out, h[node].key))
            ELSE BreadthFirstLoop_RightFirst(h, rest, out)

RECURSIVE BreadthFirstLoop(_, _, _)
\* breadthfirst: the loop over the explicit queue (pop from the front).
BreadthFirstLoop(h, queue, out) ==
    IF queue = <<>>
    THEN out
    ELSE LET node == Head(queue)
             rest == Tail(queue)
         IN IF Truthy(h, node)
            THEN BreadthFirstLoop(h,
                     Append(Append(rest, h[node].left), h[node].right),
                     Append(out, h[node].key))
            ELSE BreadthFirstLoop(h, rest, out)

BreadthFirst(h, r) == BreadthFirstLoop(h, <<r>>, <<>>)

RECURSIVE DepthFirstLoop_LeftFirst(_, _, _)
\* Faulty variant of DepthFirstLoop: left is pushed before right.
DepthFirstLoop_LeftFirst(h, stack, out) ==
    IF stack = <<>>
    THEN out
    ELSE LET node == stack[Len(stack)]
             rest == SubSeq(stack, 1, Len(stack) - 1)
         IN IF Truthy(h, node)
            THEN DepthFirstLoop_LeftFirst(h,
                     Append(Append(rest, h[node].left), h[node].right),
                     Append(out, h[node].key))
            ELSE DepthFirstLoop_LeftFirst(h, rest, out)

RECURSIVE DepthFirstLoop_DropRight(_, _, _)
\* Faulty variant of DepthFirstLoop: the right child is never pushed.
DepthFirstLoop_DropRight(h, stack, out) ==
    IF stack = <<>>
    THEN out
    ELSE LET node == stack[Len(stack)]
             rest == SubSeq(stack, 1, Len(stack) - 1)
         IN IF Truthy(h, node)
            THEN DepthFirstLoop_DropRight(h,
                     Append(rest, h[node].left),
                     Append(out, h[node].key))
            ELSE DepthFirstLoop_DropRight(h, rest, out)

RECURSIVE DepthFirstLoop(_, _, _)
\* depthfirst: the loop over the explicit stack (pop from the end).
DepthFirstLoop(h, stack, out) ==
    IF stack = <<>>
    THEN out
    ELSE LET node == stack[Len(stack)]
             rest == SubSeq(stack, 1, Len(stack) - 1)
         IN IF Truthy(h, node)
            THEN DepthFirstLoop(h,
                     Append(Append(rest, h[node].right), h[node].left),
                     Append(out, h[node].key))
            ELSE DepthFirstLoop(h, rest, out)

DepthFirst(h, r) == DepthFirstLoop(h, <<r>>, <<>>)

RECURSIVE Preorder(_, _)
Preorder(h, node) ==
    IF Truthy(h, node)
    THEN <<h[node].key>> \o Preorder(h, h[node].left)
                         \o Preorder(h, h[node].right)
    ELSE <<>>

RECURSIVE Inorder(_, _)
Inorder(h, node) ==
    IF Truthy(h, node)
    THEN Inorder(h, h[node].left) \o <<h[node].key>>
                                  \o Inorder(h, h[node].right)
    ELSE <<>>

RECURSIVE Postorder(_, _)
Postorder(h, node) ==
    IF Truthy(h, node)
    THEN Postorder(h, h[node].left) \o Postorder(h, h[node].right)
                                    \o <<h[node].key>>
    ELSE <<>>

Kinds == {"breadthfirst", "depthfirst", "preorder", "inorder", "postorder"}

\* list(kind(tree)) for the tree whose root is r.
Traversal(kind, h, r) ==
    CASE kind = "breadthfirst" -> BreadthFirst(h, r)
      [] kind = "depthfirst" -> DepthFirst(h, r)
      [] kind = "preorder" -> Preorder(h, r)
      [] kind = "inorder" -> Inorder(h, r)
      [] kind = "postorder" -> Postorder(h, r)

(***************************************************************************)
(* Object lifetime                                                         *)
(***************************************************************************)
\* The Node(SENTINEL) evaluated once, when "def __init__(self,
\* rootnode=Node(SENTINEL), /)" of class bst is executed: the object every
\* bst() call without an argument receives as rootnode.
DefaultRoot == 1

RECURSIVE Reach(_, _)
\* The objects reachable from the set S of objects along left/right links.
Reach(h, S) ==
    LET next == S \cup {h[n].left : n \in S} \cup {h[n].right : n \in S}
        live == next \ {None}
    IN IF live = S THEN S ELSE Reach(h, live)

\* The keys stored at or below link n.
KeysOf(h, n) ==
    {h[m].key : m \in {x \in Reach(h, {n} \ {None}) : h[x].key # SENTINEL}}

RECURSIVE Walk(_, _)
\* Every object below link n (sentinels included), parent first.
Walk(h, n) ==
    IF n = None
    THEN <<>>
    ELSE <<n>> \o Walk(h, h[n].left) \o Walk(h, h[n].right)

Range(seq) == {seq[i] : i \in 1..Len(seq)}

RECURSIVE AddNew(_, _)
AddNew(order, seq) ==
    IF seq = <<>>
    THEN order
    ELSE IF Head(seq) \in Range(order)
    THEN AddNew(order, Tail(seq))
    ELSE AddNew(Append(order, Head(seq)), Tail(seq))

TreeOrder == <<"t1", "t2", "b1", "b2">>

RECURSIVE LiveOrder(_, _, _, _)
LiveOrder(h, rt, i, order) ==
    IF i > Len(TreeOrder)
    THEN order
    ELSE LET t == TreeOrder[i]
         IN LiveOrder(h, rt, i + 1,
                IF rt[t] = NoTree THEN order
                ELSE AddNew(order, Walk(h, rt[t])))

RECURSIVE AddWalks(_, _, _)
\* order, extended by the objects below each reference of refs.
AddWalks(h, order, refs) ==
    IF refs = <<>>
    THEN order
    ELSE AddWalks(h, AddNew(order, Walk(h, Head(refs))), Tail(refs))

\* The new identity of object n when the live objects are listed in order.
Renamed(order, n) ==
    IF n = None THEN None
    ELSE CHOOSE i \in 1..Len(order) : order[i] = n

\* The heap restricted to the objects reachable from a tree or from one of
\* the references refs (the ones a suspended generator holds), renumbered
\* in the order they are met.
Renumber(h, rt, refs) ==
    LET order == AddWalks(h, LiveOrder(h, rt, 1, <<DefaultRoot>>), refs)
    IN [heap |-> [i \in 1..Len(order) |->
                     [key |-> h[order[i]].key,
                      left |-> Renamed(order, h[order[i]].left),
                      right |-> Renamed(order, h[order[i]].right)]],
        root |-> [t \in Trees |->
                     IF rt[t] = NoTree THEN NoTree
                     ELSE Renamed(order, rt[t])],
        order |-> order]

\* Objects without a referrer are freed, and the identities of the others
\* are renumbered in a fixed order (the default argument object first, then
\* each tree's objects, parent first).  An identity is only ever compared
\* with another for equality, so the renumbering is not observable by the
\* program; it keeps one representative of each heap.
Compact(h, rt) ==
    LET c == Renumber(h, rt, <<>>)
    IN [heap |-> c.heap, root |-> c.root]

Constructed(t) == root[t] # NoTree

\* Which branch of eject a call of remove(key) takes: "two", "one" or
\* "zero" descendants, "" when eject is not called.
EjectCase(c, h, r, key) ==
    LET s == BinarySearch(c, h, r, key)
    IN IF s.err # "none" \/ NodeBool(c, h, s.node) # "True"
       THEN ""
       ELSE IF Truthy(h, h[s.node].left) /\ Truthy(h, h[s.node].right)
       THEN "two"
       ELSE IF Truthy(h, h[s.node].left) \/ Truthy(h, h[s.node].right)
       THEN "one"
       ELSE "zero"

\* Which branch of insert(key) is taken: "skip" for a duplicate, "promote"
\* when the descent ended at a sentinel, "" when it raised.
InsertCase(c, h, r, key) ==
    LET s == BinarySearch(c, h, r, key)
    IN IF s.err # "none"
       THEN ""
       ELSE IF NodeBool(c, h, s.node) = "True" THEN "skip" ELSE "promote"


(***************************************************************************)
(* Generators: a traversal consumed one next() at a time                   *)
(***************************************************************************)
ExplicitKinds == {"breadthfirst", "depthfirst"}

\* No generator has been created.  pc is "new" for a generator object whose
\* body has not started, "yielded" while it is suspended at its yield and
\* "done" once exhausted.  queue and node are the locals of breadthfirst
\* and depthfirst; frames are the suspended _preorder, _inorder and
\* _postorder calls, outermost first, each with its node and the statement
\* it stands at.  out, changes and stable record what next() returned,
\* how many calls changed the tree between two yields, and the keys that
\* have been in the tree ever since the first next().
NoGen ==
    [pc |-> "none", kind |-> "", tree |-> "", frames |-> <<>>,
     queue |-> <<>>, node |-> None, out |-> <<>>, changes |-> 0,
     stable |-> {}]

Frame(node, at) == [node |-> node, at |-> at]

\* The object references a generator holds.
GenRefs(g) ==
    [i \in 1..Len(g.frames) |-> g.frames[i].node] \o g.queue \o <<g.node>>

RenameGen(g, order) ==
    [g EXCEPT !.frames = [i \in 1..Len(@) |->
                             Frame(Renamed(order, @[i].node), @[i].at)],
              !.queue = [i \in 1..Len(@) |-> Renamed(order, @[i])],
              !.node = Renamed(order, @)]

\* Faulty variant: "if not node: return", the loop ends at the first
\* sentinel it pops.
ExplicitLoop_StopAtSentinel(kind, h, queue) ==
    IF queue = <<>>
    THEN [pc |-> "done", queue |-> <<>>, node |-> None]
    ELSE LET node == IF kind = "breadthfirst"
                     THEN Head(queue) ELSE queue[Len(queue)]
             rest == IF kind = "breadthfirst"
                     THEN Tail(queue) ELSE SubSeq(queue, 1, Len(queue) - 1)
         IN IF Truthy(h, node)
            THEN [pc |-> "yielded", queue |-> rest, node |-> node]
            ELSE [pc |-> "done", queue |-> rest, node |-> None]

RECURSIVE ExplicitLoop(_, _, _)
\* "while queue: node = queue.pop(0); if node: yield node.key" (pop() for
\* depthfirst), run until the yield or until the queue is empty.
ExplicitLoop(kind, h, queue) ==
    IF queue = <<>>
    THEN [pc |-> "done", queue |-> <<>>, node |-> None]
    ELSE LET node == IF kind = "breadthfirst"
                     THEN Head(queue) ELSE queue[Len(queue)]
             rest == IF kind = "breadthfirst"
                     THEN Tail(queue) ELSE SubSeq(queue, 1, Len(queue) - 1)
         IN IF Truthy(h, node)
            THEN [pc |-> "yielded", queue |-> rest, node |-> node]
            ELSE ExplicitLoop(kind, h, rest)

\* Faulty variant: the left link is appended twice.
ExplicitResume_LeftTwice(kind, h, queue, node) ==
    queue \o <<h[node].left, h[node].left>>

\* The two appends after the yield: the links are read when the generator
\* is resumed.
ExplicitResume(kind, h, queue, node) ==
    IF kind = "breadthfirst"
    THEN queue \o <<h[node].left, h[node].right>>
    ELSE queue \o <<h[node].right, h[node].left>>

RECURSIVE RecursiveLoop(_, _, _)
\* The innermost suspended call of _preorder, _inorder or _postorder runs
\* on until a yield; a call that returns hands control to its caller, which
\* continues after its "yield from".  A link is read when the "yield from"
\* that descends into it is executed.
RecursiveLoop(kind, h, frames) ==
    IF frames = <<>>
    THEN [pc |-> "done", frames |-> <<>>]
    ELSE LET top == frames[Len(frames)]
             rest == SubSeq(frames, 1, Len(frames) - 1)
             Descend(at, child) ==
                 RecursiveLoop(kind, h,
                     rest \o <<Frame(top.node, at), Frame(child, "start")>>)
             Left == Descend("left", h[top.node].left)
             Right == Descend("right", h[top.node].right)
             Yield == [pc |-> "yielded",
                       frames |-> rest \o <<Frame(top.node, "key")>>]
             Return == RecursiveLoop(kind, h, rest)
         IN CASE top.at = "start" ->
                     IF ~Truthy(h, top.node) THEN Return
                     ELSE IF kind = "preorder" THEN Yield ELSE Left
              [] top.at = "left" ->
                     IF kind = "inorder" THEN Yield ELSE Right
              [] top.at = "right" ->
                     IF kind = "postorder" THEN Yield ELSE Return
              [] top.at = "key" ->
                     IF kind = "preorder" THEN Left
                     ELSE IF kind = "inorder" THEN Right ELSE Return

\* One next(g): the generator body runs from where it stands to its next
\* yield or to its end.  r is the root of the tree it was created for.
GenStep(h, r, g) ==
    IF g.kind \in ExplicitKinds
    THEN LET s == ExplicitLoop(g.kind, h,
                      IF g.pc = "new" THEN <<r>>
                      ELSE ExplicitResume(g.kind, h, g.queue, g.node))
         IN [pc |-> s.pc, frames |-> <<>>, queue |-> s.queue,
             node |-> s.node]
    ELSE LET s == RecursiveLoop(g.kind, h,
                      IF g.pc = "new" THEN <<Frame(r, "start")>>
                      ELSE g.frames)
         IN [pc |-> s.pc, frames |-> s.frames, queue |-> <<>>,
             node |-> None]

\* The object whose key a generator suspended at its yield has just
\* produced.
YieldNode(g) ==
    IF g.kind \in ExplicitKinds THEN g.node
    ELSE g.frames[Len(g.frames)].node

\* The generator after a call of insert or remove: its references follow
\* the renumbering; a change of the tree between two yields is counted.
GenAfterCall(g, h, after, order) ==
    RenameGen([g EXCEPT
                 !.changes = IF g.pc = "yielded" /\ after # h
                             THEN @ + 1 ELSE @,
                 !.stable = IF g.pc = "yielded"
                            THEN @ \cap KeysOf(after, root[g.tree])
                            ELSE @],
              order)

(***************************************************************************)
(* Actions: one per call the program makes                                 *)
(***************************************************************************)
Call(op, t, key, outcome, case, kind, out) ==
    [op |-> op, tree |-> t, key |-> key, outcome |-> outcome,
     case |-> case, kind |-> kind, out |-> out]

\* t = BinarySearchTree(): a new root object per instance.
\* t = bst(): the root is the default argument object.
Construct(t) ==
    /\ LET r == IF Class(t) = "bst" THEN DefaultRoot ELSE Fresh(heap)
           h == IF Class(t) = "bst" THEN heap ELSE New(heap, Node(SENTINEL))
           c == Renumber(h, [root EXCEPT ![t] = r], GenRefs(gen))
       IN /\ heap' = c.heap
          /\ root' = c.root
          /\ gen' = RenameGen(gen, c.order)
    /\ last' = Call("construct", t, 0, "ok", "", "", <<>>)
    /\ UNCHANGED lst

Insert(t, key) ==
    /\ Constructed(t)
    /\ LET res == InsertCall(Class(t), heap, root[t], key)
           c == Renumber(res.heap, root, GenRefs(gen))
       IN /\ heap' = c.heap
          /\ root' = c.root
          /\ gen' = GenAfterCall(gen, heap, res.heap, c.order)
          /\ last' = Call("insert", t, key, res.outcome,
                          InsertCase(Class(t), heap, root[t], key), "", <<>>)
    /\ UNCHANGED lst

Remove(t, key) ==
    /\ Constructed(t)
    /\ LET res == RemoveCall(Class(t), heap, root[t], key)
           c == Renumber(res.heap, root, GenRefs(gen))
       IN /\ heap' = c.heap
          /\ root' = c.root
          /\ gen' = GenAfterCall(gen, heap, res.heap, c.order)
          /\ last' = Call("remove", t, key, res.outcome,
                          EjectCase(Class(t), heap, root[t], key), "", <<>>)
    /\ UNCHANGED lst

Search(t, key) ==
    /\ Constructed(t)
    /\ last' = Call("search", t, key,
                    SearchCall(Class(t), heap, root[t], key), "", "", <<>>)
    /\ UNCHANGED <<heap, root, lst, gen>>

\* list(kind(t)) on a BinarySearchTree.
Traverse(t, kind) ==
    /\ Constructed(t)
    /\ Class(t) = "BinarySearchTree"
    /\ last' = Call("traverse", t, 0, "ok", "", kind,
                    Traversal(kind, heap, root[t]))
    /\ UNCHANGED <<heap, root, lst, gen>>

\* list(kind(t)) on a bst: the first bool(node) raises.
TraverseBst(t, kind) ==
    /\ Constructed(t)
    /\ Class(t) = "bst"
    /\ last' = Call("traverse", t, 0, NodeBool("bst", heap, root[t]),
                    "", kind, <<>>)
    /\ UNCHANGED <<heap, root, lst, gen>>

\* g = kind(t): the generator object is created, its body has not started.
GenStart(t, kind) ==
    /\ Constructed(t)
    /\ Class(t) = "BinarySearchTree"
    /\ gen.pc \in {"none", "done"}
    /\ gen' = [NoGen EXCEPT !.pc = "new", !.kind = kind, !.tree = t]
    /\ last' = Call("iter", t, 0, "ok", "", kind, <<>>)
    /\ UNCHANGED <<heap, root, lst>>

\* next(g) on a generator that is not exhausted.
GenResume ==
    /\ gen.pc \in {"new", "yielded"}
    /\ LET s == GenStep(heap, root[gen.tree], gen)
           g == [gen EXCEPT !.pc = s.pc, !.frames = s.frames,
                            !.queue = s.queue, !.node = s.node]
           key == IF s.pc = "yielded" THEN heap[YieldNode(g)].key ELSE 0
           c == Renumber(heap, root, GenRefs(g))
       IN /\ heap' = c.heap
          /\ root' = c.root
          /\ gen' = RenameGen(
                 [g EXCEPT !.out = IF s.pc = "yielded"
                                   THEN Append(@, key) ELSE @,
                           !.stable = IF gen.pc = "new"
                                      THEN KeysOf(heap, root[gen.tree])
                                      ELSE @],
                 c.order)
          /\ last' = Call("next", gen.tree, key,
                          IF s.pc = "yielded" THEN "ok" ELSE "StopIteration",
                          "", gen.kind, <<>>)
    /\ UNCHANGED lst

\* next(g), at most MaxYield keys into the traversal.
GenNext ==
    /\ Len(gen.out) < MaxYield
    /\ GenResume

NoCall == Call("none", "", 0, "ok", "", "", <<>>)

\* No linkedlist has been constructed.
NoList == [pc |-> "none", items |-> <<>>, key |-> "none", reverse |-> FALSE]

(***************************************************************************)
(* Spec: one BinarySearchTree, t1, already constructed.                    *)
(***************************************************************************)
Init ==
    /\ heap = (DefaultRoot :> Node(SENTINEL)) @@ (2 :> Node(SENTINEL))
    /\ root = [t \in Trees |-> IF t = "t1" THEN 2 ELSE NoTree]
    /\ last = NoCall
    /\ lst = NoList
    /\ gen = NoGen

Next ==
    \/ \E key \in Keys : Insert("t1", key)
    \/ \E key \in Keys : Remove("t1", key)
    \/ \E key \in Keys : Search("t1", key)
    \/ \E kind \in Kinds : Traverse("t1", kind)

Spec == Init /\ [][Next]_vars

(***************************************************************************)
(* SpecTrees: several tree variables of both classes, constructed and      *)
(* rebound at any time.                                                    *)
(***************************************************************************)
InitTrees ==
    /\ heap = (DefaultRoot :> Node(SENTINEL))
    /\ root = [t \in Trees |-> NoTree]
    /\ last = NoCall
    /\ lst = NoList
    /\ gen = NoGen

NextTrees ==
    \/ \E t \in Trees : Construct(t)
    \/ \E t \in Trees, key \in TreeKeys : Insert(t, key)
    \/ \E t \in Trees, key \in TreeKeys : Remove(t, key)
    \/ \E t \in Trees, key \in TreeKeys : Search(t, key)
    \/ \E t \in Trees, kind \in Kinds : Traverse(t, kind)
    \/ \E t \in Trees, kind \in Kinds : TraverseBst(t, kind)

SpecTrees == InitTrees /\ [][NextTrees]_vars

(***************************************************************************)
(* SpecGen: one BinarySearchTree, t1, and one generator at a time over it; *)
(* insert and remove may be called between two next(), until MaxChanges    *)
(* of these calls have changed the tree under the suspended generator.  An *)
(* exhausted generator is replaced by a new one before the next call.      *)
(***************************************************************************)
GenKeys == 1..MaxGenKey

CallAllowed == gen.pc # "done" /\ gen.changes < MaxChanges

NextGen ==
    \/ \E key \in GenKeys : CallAllowed /\ Insert("t1", key)
    \/ \E key \in GenKeys : CallAllowed /\ Remove("t1", key)
    \/ \E kind \in Kinds : GenStart("t1", kind)
    \/ GenNext

SpecGen == Init /\ [][NextGen]_vars

(***************************************************************************)
(* SpecQuiet: the tree t1 is built first; once a generator exists, only    *)
(* next() is called, and the consumer keeps calling it until the generator *)
(* is exhausted (list(g), a for loop).  Another traversal of the same tree *)
(* may follow.                                                             *)
(***************************************************************************)
\* The generator can be resumed: the guard of GenResume, whose step always
\* changes gen, so GenActive is ENABLED <<GenResume>>_vars.
GenActive == gen.pc \in {"new", "yielded"}

\* WF_vars(GenResume), with its ENABLED written as the state predicate
\* GenActive: a consumer that has not seen StopIteration calls next() again.
ConsumerFairness == []<>(~GenActive) \/ []<><<GenResume>>_vars

NextQuiet ==
    \/ \E key \in GenKeys : gen.pc = "none" /\ Insert("t1", key)
    \/ \E key \in GenKeys : gen.pc = "none" /\ Remove("t1", key)
    \/ \E kind \in Kinds : GenStart("t1", kind)
    \/ GenResume

SpecQuiet == Init /\ [][NextQuiet]_vars /\ ConsumerFairness

(***************************************************************************)
(* Vocabulary of the properties                                            *)
(***************************************************************************)

\* The constructed instances of BinarySearchTree.
BSTs == {t \in BSTrees : Constructed(t)}

StrictlyAscending(seq) ==
    \A i \in 1..(Len(seq) - 1) : seq[i] < seq[i + 1]

Max(S) == CHOOSE x \in S : \A y \in S : y <= x
Min(S) == CHOOSE x \in S : \A y \in S : x <= y

HasTwoChildNode(h, r) ==
    \E n \in Reach(h, {r}) :
        Truthy(h, n) /\ Truthy(h, h[n].left) /\ Truthy(h, h[n].right)

(***************************************************************************)
(* Properties of BinarySearchTree, checked under Spec                      *)
(***************************************************************************)

\* C1: after any sequence of insert and remove calls the BST property
\* holds: below every non-sentinel node all keys of the left subtree are
\* smaller and all keys of the right subtree are larger than the node's
\* key, and inorder yields the keys in strictly ascending order.
C1_BSTInvariant ==
    \A t \in BSTs :
        /\ \A n \in Reach(heap, {root[t]}) :
               Truthy(heap, n) =>
                   /\ \A k \in KeysOf(heap, heap[n].left) : k < heap[n].key
                   /\ \A k \in KeysOf(heap, heap[n].right) : k > heap[n].key
        /\ StrictlyAscending(Inorder(heap, root[t]))

\* A two-descendant removal that left a tree in which some node still has
\* two descendants.
C1_Witness ==
    /\ last.op = "remove" /\ last.case = "two"
    /\ HasTwoChildNode(heap, root[last.tree])

\* C2: search(k) is true right after insert(k) and false right after a
\* remove(k) that did not raise.
C2_RoundTrip ==
    /\ last.op = "insert" =>
           SearchCall(Class(last.tree), heap, root[last.tree], last.key)
               = "True"
    /\ (last.op = "remove" /\ last.outcome = "ok") =>
           SearchCall(Class(last.tree), heap, root[last.tree], last.key)
               = "False"

\* remove(k) has just ejected a node with two descendants.
C2_Witness ==
    /\ last.op = "remove" /\ last.outcome = "ok" /\ last.case = "two"
    /\ KeysOf(heap, root[last.tree]) # {}

\* C3: remove(k) of a key that is not in the tree raises the KeyNotFound
\* error and changes no node and no link.
C3_RemoveAbsent ==
    [][(/\ last'.op = "remove"
        /\ last'.key \notin KeysOf(heap, root[last'.tree]))
       => (/\ last'.outcome = "KeyNotFound"
           /\ heap' = heap
           /\ root' = root
           /\ Inorder(heap', root'[last'.tree])
                  = Inorder(heap, root[last'.tree]))]_vars

\* A failed remove on a tree that holds other keys.
C3_Witness ==
    /\ last.op = "remove" /\ last.outcome = "KeyNotFound"
    /\ Cardinality(KeysOf(heap, root[last.tree])) >= 2

\* C4: insert(k) of a key that is already in the tree changes nothing:
\* every node and link, hence the inorder sequence and the node count, is
\* as before, search(k) stays true, and repeating an insert leaves the
\* tree of the first one.
C4_DuplicateInsert ==
    [][/\ (/\ last'.op = "insert"
           /\ last'.key \in KeysOf(heap, root[last'.tree]))
          => (/\ last'.outcome = "ok"
              /\ heap' = heap
              /\ root' = root
              /\ Inorder(heap', root'[last'.tree])
                     = Inorder(heap, root[last'.tree])
              /\ SearchCall(Class(last'.tree), heap', root'[last'.tree],
                            last'.key) = "True")
       /\ last'.op = "insert"
          => InsertCall(Class(last'.tree), heap', root'[last'.tree],
                        last'.key).heap = heap']_vars

\* A duplicate insert into a tree of several keys.
C4_Witness ==
    /\ last.op = "insert" /\ last.case = "skip"
    /\ Cardinality(KeysOf(heap, root[last.tree])) >= 3

\* C5: remove(k) of a key held by a node with two non-sentinel children
\* leaves in that same node the maximum key of its former left subtree (not
\* the minimum of the right subtree), leaves the right subtree as it was,
\* and leaves in the left subtree the former keys without that maximum.
C5_TwoChildPredecessor ==
    \A t \in BSTs : \A k \in Keys :
        LET n == BinarySearch(Class(t), heap, root[t], k).node
            res == RemoveCall(Class(t), heap, root[t], k).heap
            l == heap[n].left
            r == heap[n].right
        IN EjectCase(Class(t), heap, root[t], k) = "two" =>
               /\ res[n].key = Max(KeysOf(heap, l))
               /\ res[n].key # Min(KeysOf(heap, r))
               /\ res[n].right = r
               /\ \A m \in Reach(heap, {r}) : res[m] = heap[m]
               /\ KeysOf(res, res[n].left)
                      = KeysOf(heap, l) \ {Max(KeysOf(heap, l))}

\* After a two-descendant removal, a tree in which a node has two
\* descendants and its predecessor is not its left child.
C5_Witness ==
    /\ last.op = "remove" /\ last.case = "two"
    /\ \E n \in Reach(heap, {root[last.tree]}) :
           /\ Truthy(heap, n)
           /\ Truthy(heap, heap[n].left) /\ Truthy(heap, heap[n].right)
           /\ MaxNode(heap, heap[n].left) # heap[n].left

\* C6: each of the five traversals yields every key of the tree exactly
\* once and never the sentinel marker.
C6_TraversalKeys ==
    \A t \in BSTs : \A kind \in Kinds :
        LET out == Traversal(kind, heap, root[t])
        IN /\ Len(out) = Cardinality(KeysOf(heap, root[t]))
           /\ Range(out) = KeysOf(heap, root[t])
           /\ SENTINEL \notin Range(out)

\* A traversal of a tree of at least four keys has been run.
C6_Witness ==
    /\ last.op = "traverse" /\ last.kind = "breadthfirst"
    /\ Len(last.out) >= 4
    /\ HasTwoChildNode(heap, root[last.tree])

\* C7: preorder and depthfirst yield the same sequence.
C7_PreorderIsDepthFirst ==
    \A t \in BSTs : Preorder(heap, root[t]) = DepthFirst(heap, root[t])

\* depthfirst has been run on a tree in which some node has both children.
C7_Witness ==
    /\ last.op = "traverse" /\ last.kind = "depthfirst"
    /\ Len(last.out) >= 3
    /\ HasTwoChildNode(heap, root[last.tree])

\* C9: on an empty tree every search is false, every remove raises
\* KeyNotFound and every traversal yields nothing.
C9_EmptyTree ==
    \A t \in BSTs :
        heap[root[t]].key = SENTINEL =>
            /\ \A k \in Keys :
                   /\ SearchCall(Class(t), heap, root[t], k) = "False"
                   /\ RemoveCall(Class(t), heap, root[t], k).outcome
                          = "KeyNotFound"
            /\ \A kind \in Kinds : Traversal(kind, heap, root[t]) = <<>>

\* A remove has failed on the empty tree.
C9_Witness ==
    /\ last.op = "remove" /\ last.outcome = "KeyNotFound"
    /\ heap[root[last.tree]].key = SENTINEL

\* C10: insert and search never raise: the descent ends at a node (never at
\* a missing link) without comparing a key with the sentinel marker.
C10_OnlyRemoveFails ==
    /\ \A t \in BSTs : \A k \in Keys :
           /\ BinarySearch(Class(t), heap, root[t], k).err = "none"
           /\ BinarySearch(Class(t), heap, root[t], k).node # None
           /\ InsertCall(Class(t), heap, root[t], k).outcome = "ok"
           /\ SearchCall(Class(t), heap, root[t], k) \in {"True", "False"}
    /\ last.op = "insert" => last.outcome = "ok"
    /\ last.op = "search" => last.outcome \in {"True", "False"}

\* A new key has been inserted below other keys after a removal-free or
\* removal-containing history.
C10_Witness ==
    /\ last.op = "insert" /\ last.case = "promote" /\ last.outcome = "ok"
    /\ Cardinality(KeysOf(heap, root[last.tree])) >= 3

(***************************************************************************)
(* Ownership of roots, checked under SpecTrees                             *)
(***************************************************************************)

\* C8: each tree owns its root exclusively: two tree instances never have
\* the same root object, a newly constructed tree is empty, and an insert
\* or remove on one tree leaves the keys of every other tree as they were.
C8_ExclusiveRoot ==
    /\ \A t, u \in Trees :
           (t # u /\ Constructed(t) /\ Constructed(u)) =>
               root[t] # root[u]
    /\ last.op = "construct" => heap[root[last.tree]].key = SENTINEL
    /\ \A t, u \in Trees : \A k \in TreeKeys :
           (t # u /\ Constructed(t) /\ Constructed(u)) =>
               /\ KeysOf(InsertCall(Class(t), heap, root[t], k).heap,
                         root[u]) = KeysOf(heap, root[u])
               /\ KeysOf(RemoveCall(Class(t), heap, root[t], k).heap,
                         root[u]) = KeysOf(heap, root[u])

\* The same statement for the instances of BinarySearchTree alone.
BinarySearchTreeExclusiveRoot ==
    /\ \A t, u \in BSTs : t # u => root[t] # root[u]
    /\ (last.op = "construct" /\ last.tree \in BSTrees) =>
           heap[root[last.tree]].key = SENTINEL
    /\ \A t, u \in BSTs : \A k \in TreeKeys :
           t # u =>
               /\ KeysOf(InsertCall(Class(t), heap, root[t], k).heap,
                         root[u]) = KeysOf(heap, root[u])
               /\ KeysOf(RemoveCall(Class(t), heap, root[t], k).heap,
                         root[u]) = KeysOf(heap, root[u])

(***************************************************************************)
(* Level order                                                             *)
(***************************************************************************)
\* keys = (9, 4, 10, 3, 6, 11, 2, 5, 7) of the demo.
DemoKeys == <<9, 4, 10, 3, 6, 11, 2, 5, 7>>

RECURSIVE InsertAll(_, _, _)
\* for key in keys: tree.insert(key)
InsertAll(h, r, keys) ==
    IF keys = <<>>
    THEN h
    ELSE InsertAll(InsertCall("BinarySearchTree", h, r, Head(keys)).heap,
                   r, Tail(keys))

\* The heap of the demo after its insert loop; the tree's root is object 1.
DemoHeap == InsertAll((1 :> Node(SENTINEL)), 1, DemoKeys)

RECURSIVE DepthOfNode(_, _, _, _)
\* The number of links from n down to object m, plus d; -1 when m is not
\* below n.
DepthOfNode(h, n, m, d) ==
    IF n = None
    THEN -1
    ELSE IF n = m
    THEN d
    ELSE LET l == DepthOfNode(h, h[n].left, m, d + 1)
             r == DepthOfNode(h, h[n].right, m, d + 1)
         IN IF l >= r THEN l ELSE r

\* The depth below r of the node that holds key k.
KeyDepth(h, r, k) ==
    DepthOfNode(h, r, CHOOSE x \in Reach(h, {r}) : h[x].key = k, 0)

\* C11: breadthfirst yields the keys level by level: depth never decreases
\* along the yielded sequence and keys of equal depth come in ascending
\* order (left to right); on the demo tree it yields 9,4,10,3,6,11,2,5,7.
C11_LevelOrder ==
    /\ \A t \in BSTs :
           LET out == BreadthFirst(heap, root[t])
           IN \A i, j \in 1..Len(out) :
                  i < j =>
                      /\ KeyDepth(heap, root[t], out[i])
                             <= KeyDepth(heap, root[t], out[j])
                      /\ KeyDepth(heap, root[t], out[i])
                             = KeyDepth(heap, root[t], out[j])
                         => out[i] < out[j]
    /\ BreadthFirst(DemoHeap, 1) = <<9, 4, 10, 3, 6, 11, 2, 5, 7>>

\* breadthfirst has been run on a tree that has two keys on one level
\* below a level and above another.
C11_Witness ==
    /\ last.op = "traverse" /\ last.kind = "breadthfirst"
    /\ Len(last.out) >= 4
    /\ \E i, j \in 1..Len(last.out) :
           /\ i < j
           /\ KeyDepth(heap, root[last.tree], last.out[i])
                  = KeyDepth(heap, root[last.tree], last.out[j])
    /\ KeyDepth(heap, root[last.tree], last.out[Len(last.out)]) >= 2

(***************************************************************************)
(* Structure of the tree and effect of each call                           *)
(***************************************************************************)
\* The node remove(k) or insert(k) on tree t works on.
Found(t, k) == BinarySearch(Class(t), heap, root[t], k).node

\* The heap right after the call returns.
AfterRemove(t, k) == RemoveCall(Class(t), heap, root[t], k).heap
AfterInsert(t, k) == InsertCall(Class(t), heap, root[t], k).heap

\* Every object of heap h other than n is the same in heap res.
OthersUnchanged(h, res, n) ==
    \A m \in (DOMAIN h) \ {n} : m \in DOMAIN res /\ res[m] = h[m]

\* The link fields (holder, side) that refer to object m, among objects R.
Referrers(h, R, m) ==
    {<<n, "left">> : n \in {x \in R : h[x].left = m}}
        \cup {<<n, "right">> : n \in {x \in R : h[x].right = m}}

\* The objects reachable from r form a tree with root r.
TreeShaped(h, r) ==
    LET R == Reach(h, {r})
    IN \A m \in R :
           Cardinality(Referrers(h, R, m)) = (IF m = r THEN 0 ELSE 1)

\* Every reachable keyed node has two links to objects, every reachable
\* sentinel has none.
WellLinked(h, r) ==
    \A n \in Reach(h, {r}) :
        IF h[n].key # SENTINEL
        THEN /\ h[n].left # None /\ h[n].left \in DOMAIN h
             /\ h[n].right # None /\ h[n].right \in DOMAIN h
        ELSE h[n].left = None /\ h[n].right = None

\* C14: the tree is a set of keys: insert(k) adds exactly k, a remove(k)
\* that returns takes away exactly k, a remove that raises changes
\* nothing; no key is stored twice, and search(x) is true exactly for the
\* keys of that set.
C14_SetSemantics ==
    [][/\ last'.op = "insert"
          => KeysOf(heap', root'[last'.tree])
                 = KeysOf(heap, root[last'.tree]) \cup {last'.key}
       /\ (last'.op = "remove" /\ last'.outcome = "ok")
          => /\ last'.key \in KeysOf(heap, root[last'.tree])
             /\ KeysOf(heap', root'[last'.tree])
                    = KeysOf(heap, root[last'.tree]) \ {last'.key}
       /\ (last'.op = "remove" /\ last'.outcome # "ok")
          => KeysOf(heap', root'[last'.tree])
                 = KeysOf(heap, root[last'.tree])
       /\ last'.op \in {"insert", "remove"}
          => /\ Len(Inorder(heap', root'[last'.tree]))
                    = Cardinality(KeysOf(heap', root'[last'.tree]))
             /\ \A x \in Keys :
                    SearchCall(Class(last'.tree), heap',
                               root'[last'.tree], x) = "True"
                        <=> x \in KeysOf(heap', root'[last'.tree])]_vars

\* A one-descendant removal that left at least three keys.
C14_Witness ==
    /\ last.op = "remove" /\ last.outcome = "ok" /\ last.case = "one"
    /\ Cardinality(KeysOf(heap, root[last.tree])) >= 3

\* C15: every reachable non-sentinel node has a left and a right link
\* that refer to node objects, and every reachable sentinel has both links
\* cleared; also in the heap each remove and insert returns with.
C15_LinkStructure ==
    \A t \in BSTs :
        /\ WellLinked(heap, root[t])
        /\ \A k \in Keys :
               /\ WellLinked(AfterRemove(t, k), root[t])
               /\ WellLinked(AfterInsert(t, k), root[t])

\* substitute() has turned a leaf into a sentinel below other nodes.
C15_Witness ==
    /\ last.op = "remove" /\ last.case = "zero"
    /\ Cardinality(KeysOf(heap, root[last.tree])) >= 2
    /\ HasTwoChildNode(heap, root[last.tree])

\* C16: the objects reachable from the root form a tree: the root is in no
\* link field, every other reachable object (sentinels included) is in
\* exactly one, so nothing is shared and there is no cycle.
C16_NoAliasing ==
    \A t \in BSTs :
        /\ TreeShaped(heap, root[t])
        /\ \A k \in Keys :
               /\ TreeShaped(AfterRemove(t, k), root[t])
               /\ TreeShaped(AfterInsert(t, k), root[t])

\* substitute() has copied a child's links into its parent, in a tree
\* that still has a node with two descendants.
C16_Witness ==
    /\ last.op = "remove" /\ last.case = "one"
    /\ HasTwoChildNode(heap, root[last.tree])

\* C17: insert(k) of an absent key changes one object only, the sentinel
\* the descent ended at: it gets key k and two new, distinct sentinel
\* children; every other object is as before.  On an empty tree that
\* object is the root.
C17_InsertFrame ==
    \A t \in BSTs : \A k \in Keys \ KeysOf(heap, root[t]) :
        LET n == Found(t, k)
            res == AfterInsert(t, k)
        IN /\ n \in DOMAIN heap /\ heap[n] = Node(SENTINEL)
           /\ res[n].key = k
           /\ res[n].left \notin DOMAIN heap
           /\ res[n].right \notin DOMAIN heap
           /\ res[n].left # res[n].right
           /\ DOMAIN res = (DOMAIN heap) \cup {res[n].left, res[n].right}
           /\ res[res[n].left] = Node(SENTINEL)
           /\ res[res[n].right] = Node(SENTINEL)
           /\ OthersUnchanged(heap, res, n)
           /\ KeysOf(heap, root[t]) = {} => n = root[t]

\* A key has been put two links below the root.
C17_Witness ==
    /\ last.op = "insert" /\ last.case = "promote"
    /\ KeyDepth(heap, root[last.tree], last.key) >= 2

\* C18: remove(k) of a key held by a node with exactly one non-sentinel
\* child leaves that node object in place with the child's key and both
\* of the child's links; no other object changes.
C18_OneChildPromotion ==
    \A t \in BSTs : \A k \in Keys :
        LET n == Found(t, k)
            res == AfterRemove(t, k)
            child == IF Truthy(heap, heap[n].left)
                     THEN heap[n].left ELSE heap[n].right
        IN EjectCase(Class(t), heap, root[t], k) = "one" =>
               /\ res[n] = heap[child]
               /\ DOMAIN res = DOMAIN heap
               /\ OthersUnchanged(heap, res, n)
               /\ Walk(res, res[n].left) = Walk(heap, heap[child].left)
               /\ Walk(res, res[n].right) = Walk(heap, heap[child].right)
               /\ KeysOf(res, n) = KeysOf(heap, child)

\* A one-descendant removal, in a tree where another one is possible on a
\* node whose only descendant is the right one.
C18_Witness ==
    /\ last.op = "remove" /\ last.case = "one"
    /\ \E n \in Reach(heap, {root[last.tree]}) :
           /\ Truthy(heap, n)
           /\ ~Truthy(heap, heap[n].left)
           /\ Truthy(heap, heap[n].right)

\* C19: remove(k) of a key held by a node with two sentinel children turns
\* that node object into a sentinel with both links cleared and changes no
\* other object; a tree without keys is the tree a constructor returns.
C19_LeafBecomesSentinel ==
    \A t \in BSTs :
        /\ \A k \in Keys :
               EjectCase(Class(t), heap, root[t], k) = "zero" =>
                   /\ AfterRemove(t, k)[Found(t, k)] = Node(SENTINEL)
                   /\ OthersUnchanged(heap, AfterRemove(t, k), Found(t, k))
        /\ KeysOf(heap, root[t]) = {} =>
               /\ heap[root[t]] = Node(SENTINEL)
               /\ \A k \in Keys :
                      /\ SearchCall(Class(t), heap, root[t], k) = "False"
                      /\ RemoveCall(Class(t), heap, root[t], k).outcome
                             = "KeyNotFound"
                      /\ KeysOf(AfterInsert(t, k), root[t]) = {k}
                      /\ AfterInsert(t, k)[root[t]].key = k
               /\ \A kind \in Kinds : Traversal(kind, heap, root[t]) = <<>>

\* The last remaining key has been removed.
C19_Witness ==
    /\ last.op = "remove" /\ last.case = "zero" /\ last.outcome = "ok"
    /\ KeysOf(heap, root[last.tree]) = {}

\* Which branch eject takes on node n of heap h.
NodeCase(h, n) ==
    IF Truthy(h, h[n].left) /\ Truthy(h, h[n].right) THEN "two"
    ELSE IF Truthy(h, h[n].left) \/ Truthy(h, h[n].right) THEN "one"
    ELSE "zero"

RECURSIVE EjectDepth(_, _, _)
\* The number of recursive eject() calls self.eject() makes, counted up to
\* fuel.
EjectDepth(h, self, fuel) ==
    IF fuel = 0 \/ NodeCase(h, self) # "two"
    THEN 0
    ELSE LET maxnode == MaxNode(h, h[self].left)
         IN 1 + EjectDepth([h EXCEPT ![self].key = h[maxnode].key],
                           maxnode, fuel - 1)

\* C20: in eject's two-descendant case the chosen predecessor has a
\* sentinel as right child, so the recursive eject takes the
\* one-descendant or the leaf branch, and eject calls itself once at most.
C20_EjectRecursesOnce ==
    \A t \in BSTs : \A k \in Keys :
        LET n == Found(t, k)
            maxnode == MaxNode(heap, heap[n].left)
        IN EjectCase(Class(t), heap, root[t], k) = "two" =>
               /\ heap[maxnode].right # None
               /\ IsSentinel(heap, heap[maxnode].right)
               /\ NodeCase([heap EXCEPT ![n].key = heap[maxnode].key],
                           maxnode) \in {"one", "zero"}
               /\ EjectDepth(heap, n, Cardinality(DOMAIN heap)) = 1

\* After a two-descendant removal, a tree in which the predecessor of a
\* node with two descendants is its left child and has a descendant itself.
C20_Witness ==
    /\ last.op = "remove" /\ last.case = "two"
    /\ \E n \in Reach(heap, {root[last.tree]}) :
           /\ NodeCase(heap, n) = "two"
           /\ NodeCase(heap, MaxNode(heap, heap[n].left)) = "one"

(***************************************************************************)
(* linkedlist.isort                                                        *)
(*                                                                         *)
(* A list is the sequence of the values its nodes hold, head first.  A     *)
(* value is an object [id, val]: val is what key functions and comparisons *)
(* see, id is its identity, set to its position when isort is called.      *)
(***************************************************************************)
\* The key functions tried: no key (identity) and lambda v: v // 2.
KeyFns == {"none", "half"}

\* _key(value): key(value), cached per object.
SortKey(kf, v) == IF kf = "half" THEN v.val \div 2 ELSE v.val

\* node_i.value, node_j.value = node_j.value, node_i.value
SwapValues(a, i, j) == [a EXCEPT ![i] = a[j], ![j] = a[i]]

RECURSIVE ISortInner(_, _, _, _)
\* The inner loop of isort: node_j runs from the head up to node_i.
ISortInner(a, i, j, kf) ==
    IF j = i
    THEN a
    ELSE IF SortKey(kf, a[j]) > SortKey(kf, a[i])
    THEN ISortInner(SwapValues(a, i, j), i, j + 1, kf)
    ELSE ISortInner(a, i, j + 1, kf)

RECURSIVE ISortOuter(_, _, _)
\* The outer loop of isort: node_i runs over the whole list.
ISortOuter(a, i, kf) ==
    IF i > Len(a)
    THEN a
    ELSE ISortOuter(ISortInner(a, i, 1, kf), i + 1, kf)

RECURSIVE ReverseLoop(_, _)
\* The loop of reverse(): each node in turn is linked in front of prev.
ReverseLoop(curr, prev) ==
    IF curr = <<>>
    THEN prev
    ELSE ReverseLoop(Tail(curr), <<Head(curr)>> \o prev)

\* reverse(): the list afterwards.
ReverseList(a) == ReverseLoop(a, <<>>)

\* isort(key=kf, reverse=rev): the list afterwards.
ISortCall(a, kf, rev) ==
    LET sorted == ISortOuter(a, 1, kf)
    IN IF rev THEN ReverseList(sorted) ELSE sorted

\* The sequences of at most n values.
RECURSIVE SeqsUpTo(_)
SeqsUpTo(n) ==
    IF n = 0
    THEN {<<>>}
    ELSE LET shorter == SeqsUpTo(n - 1)
         IN shorter \cup {Append(q, v) : q \in shorter, v \in Vals}

\* The objects of list a, identified by their present positions.
Positioned(a) == [i \in 1..Len(a) |-> [id |-> i, val |-> a[i].val]]

\* lst = linkedlist(vals)
ListNew(vals) ==
    /\ lst.pc = "none"
    /\ lst' = [pc |-> "built",
               items |-> [i \in 1..Len(vals) |-> [id |-> i, val |-> vals[i]]],
               key |-> "none", reverse |-> FALSE]
    /\ UNCHANGED <<heap, root, last, gen>>

\* lst.isort(key=kf, reverse=rev)
ISort(kf, rev) ==
    /\ lst.pc \in {"built", "sorted"}
    /\ lst' = [pc |-> "sorted",
               items |-> ISortCall(Positioned(lst.items), kf, rev),
               key |-> kf, reverse |-> rev]
    /\ UNCHANGED <<heap, root, last, gen>>

InitSort ==
    /\ heap = (DefaultRoot :> Node(SENTINEL))
    /\ root = [t \in Trees |-> NoTree]
    /\ last = NoCall
    /\ lst = NoList
    /\ gen = NoGen

NextSort ==
    \/ \E vals \in SeqsUpTo(MaxLen) : ListNew(vals)
    \/ \E kf \in KeyFns, rev \in BOOLEAN : ISort(kf, rev)

SpecSort == InitSort /\ [][NextSort]_vars

\* C13: isort is stable: after isort, two values whose keys are equal are
\* in the order they had before the call, for every key function and
\* either value of reverse.
C13_ISortStable ==
    lst.pc = "sorted" =>
        \A i, j \in 1..Len(lst.items) :
            (/\ i < j
             /\ SortKey(lst.key, lst.items[i])
                    = SortKey(lst.key, lst.items[j]))
                => lst.items[i].id < lst.items[j].id

\* The same with reverse=False only.
ISortStableAscending ==
    (lst.pc = "sorted" /\ ~lst.reverse) =>
        \A i, j \in 1..Len(lst.items) :
            (/\ i < j
             /\ SortKey(lst.key, lst.items[i])
                    = SortKey(lst.key, lst.items[j]))
                => lst.items[i].id < lst.items[j].id

(***************************************************************************)
(* Traversals interleaved with insert and remove (SpecGen)                 *)
(***************************************************************************)
HasDuplicate(seq) == \E i, j \in 1..Len(seq) : i < j /\ seq[i] = seq[j]

\* The exhausted generator g never yielded a key that was in the tree from
\* its first next() to its last.
MissedStable(g) ==
    g.pc = "done" /\ \E k \in g.stable : k \notin Range(g.out)

\* C12: a traversal is not isolated from insert and remove: a generator
\* yields a key twice, or ends without having yielded a key that stayed in
\* the tree throughout, only when a call changed the tree between two of
\* its next(); a generator exhausted without such a call has yielded
\* exactly list(kind(tree)).  That both anomalies do happen under
\* interleaving is the reachability of C12_Witness.
C12_NoIsolation ==
    /\ (HasDuplicate(gen.out) \/ MissedStable(gen)) => gen.changes > 0
    /\ (gen.pc = "done" /\ gen.changes = 0)
          => gen.out = Traversal(gen.kind, heap, root[gen.tree])

\* A preorder or inorder traversal that ended after calls changed the tree
\* under it, having yielded one key twice and never a key that was in the
\* tree all along.
C12_Witness ==
    /\ gen.kind \in {"preorder", "inorder"}
    /\ gen.changes > 0
    /\ HasDuplicate(gen.out)
    /\ MissedStable(gen)

(***************************************************************************)
(* Traversals of a tree that is left alone (SpecQuiet)                     *)
(***************************************************************************)
\* The number of objects at or below link r that hold a key.
NodeCount(h, r) ==
    Cardinality({x \in Reach(h, {r} \ {None}) : h[x].key # SENTINEL})

\* The generator is exhausted, has yielded one key per object holding a
\* key, and its queue or stack and its call frames are empty.
Exhausted ==
    /\ gen.pc = "done"
    /\ Len(gen.out) = NodeCount(heap, root[gen.tree])
    /\ gen.queue = <<>>
    /\ gen.frames = <<>>

\* C21: on a tree that is not changed while it is traversed, every
\* traversal (preorder, inorder, postorder, depthfirst, breadthfirst) is
\* finite: a generator that has been created is eventually exhausted,
\* having yielded exactly as many keys as the tree has non-sentinel nodes,
\* with its explicit stack or queue empty.
C21_Finite == (gen.pc = "new") ~> Exhausted

\* An exhausted breadthfirst or depthfirst traversal, queue empty, of a tree
\* with a node that has two children.
C21_Witness ==
    /\ Exhausted
    /\ gen.kind \in ExplicitKinds
    /\ HasTwoChildNode(heap, root[gen.tree])
    /\ Len(gen.out) >= 3

=============================================================================
